---- MODULE Spec2Model ----
(***************************************************************************)
(* Model of the tlsprotocol package: a Listener that owns a pool of accept *)
(* workers, a registry of per-ALPN Protocol routes, a default hand-off     *)
(* queue and an error channel.                                             *)
(*                                                                         *)
(* Objects live in heaps (sequences indexed by identity): wk holds the     *)
(* worker structs, routes the Protocol structs, chans the `chan net.Conn`  *)
(* values, errChans the `chan error` values and conns the accepted         *)
(* connections together with the position of their connectionReceived      *)
(* goroutine.  0 is the nil pointer / nil channel, <<>> a nil interface.   *)
(***************************************************************************)
EXTENDS Integers, Sequences, FiniteSets, TLC

\* ------------------------------------------------------------------ bounds
MaxObjects == 4        \* objects allocated in one behaviour
MaxStarters == 3       \* goroutines that call start on one worker
PortWindow == 5        \* ports tried on each side of a range edge

\* ------------------------------------------------------- program constants
ChanCap == 1                       \* make(chan net.Conn, 1), make(chan error, 1)
PortBits == 16                     \* strconv.ParseInt(port, 10, 16)
NextProtos == <<"h2">>             \* TLSConfig.NextProtos of the test listener
Names == {"h2", "h3"}              \* names passed to Listener.Protocol
NegotiatedNames == {"", "h2"}            \* ConnectionState().NegotiatedProtocol
ListenerCounts == {0, 2}             \* Listeners: 0 (the test listener, made 1) and 2
BindPorts == {6080, 70000}         \* port part of BindAddr ("127.0.0.1:6080")

NilChan == 0
NilAddr == <<>>
EmptyMap == [p \in {} |-> 0]
NoPanic == [op |-> "", msg |-> ""]
NoRet == [op |-> "", name |-> "", route |-> 0, conn |-> 0, err |-> "", done |-> FALSE]

VARIABLES
    Listeners,       \* Listener.Listeners
    BindPort,        \* port of Listener.BindAddr
    workers,         \* Listener.workers: sequence of worker ids, 0 = nil entry
    wk,              \* heap of worker structs and their listen goroutines
    addr,            \* Listener.addr (NilAddr or <<port>>)
    sockAddr,        \* Listener.sockAddr (NilAddr or <<port>>)
    channels,        \* Listener.channels: name -> Protocol id
    routes,          \* heap of Protocol structs
    chans,           \* heap of connection channels
    defaultChannel,  \* Listener.defaultChannel (channel id or NilChan)
    errChans,        \* heap of error channels
    errors,          \* Listener.errors (channel id or NilChan)
    conns,           \* accepted connections and their connectionReceived task
    pc,              \* position of the caller goroutine (inside Stop or idle)
    caller,          \* which call entered Stop: "Stop", "Close" or "Start"
    ret,             \* result of the call that returns in this state
    panic,           \* the panic that ended the process, NoPanic if none
    stopped,         \* a Stop has completed and no Start followed it
    startedOk,       \* some call of Start has returned nil
    closedRunning,   \* names whose route was closed since the last Start
    starters,        \* position of each goroutine that calls worker.start
    lock,            \* worker.lock: the goroutine that holds it, 0 if free
    listenTasks      \* number of `go worker.listen()` executed for the worker

vars == <<Listeners, BindPort, workers, wk, addr, sockAddr, channels, routes,
          chans, defaultChannel, errChans, errors, conns, pc, caller, ret,
          panic, stopped, startedOk, closedRunning, starters, lock, listenTasks>>

\* The state of the goroutines that call worker.start concurrently.
startVars == <<starters, lock, listenTasks>>

\* ------------------------------------------------------------- channels
NewChan == [buf |-> <<>>, closed |-> FALSE]
ChanLen(ch) == IF ch = NilChan THEN 0 ELSE Len(chans[ch].buf)
\* Mutant of ChanFull: a send never finds the queue full.
ChanFullNever(ch) == FALSE

ChanFull(ch) == Len(chans[ch].buf) >= ChanCap
CloseChan(cs, ch) == [cs EXCEPT ![ch].closed = TRUE]

\* ---------------------------------------------------------- connections
\* A connection that left the package: returned by an Accept, or closed.
Gone(st) == [st |-> st, proto |-> "", mutual |-> FALSE, target |-> NilChan]

NewConn ==
    [st |-> "handshake", proto |-> "", mutual |-> FALSE, target |-> NilChan]

\* No goroutine runs after a panic.  ret shows the result of a call in the
\* state in which the call returns; the caller takes it (Return) before any
\* goroutine moves on.
Live == panic = NoPanic /\ ret = NoRet

Allocated == Len(chans) + Len(wk) + Len(conns)

Running == Live /\ pc = "idle"

Init ==
    /\ Listeners \in ListenerCounts
    /\ BindPort \in BindPorts
    /\ workers = <<>>
    /\ wk = <<>>
    /\ addr = NilAddr
    /\ sockAddr = NilAddr
    /\ channels = EmptyMap
    /\ routes = <<>>
    /\ chans = <<>>
    /\ defaultChannel = NilChan
    /\ errChans = <<>>
    /\ errors = NilChan
    /\ conns = <<>>
    /\ pc = "idle"
    /\ caller = ""
    /\ ret = NoRet
    /\ Live
    /\ stopped = FALSE
    /\ startedOk = FALSE
    /\ closedRunning = {}
    /\ starters = <<>>
    /\ lock = 0
    /\ listenTasks = 0

\* ------------------------------------------------------ Listener.Protocol
\* Mutant of Started: the guard on the worker list is missing.
StartedNever == FALSE

Started == Len(workers) > 0

\* Mutant of Declared: the duplicate check is missing.
DeclaredNever(proto) == FALSE

Declared(proto) == proto \in DOMAIN channels

\* Mutant of protocolConfigured: every name counts as configured.
protocolConfiguredAny(proto) == TRUE

protocolConfigured(proto) == \E i \in 1..Len(NextProtos) : NextProtos[i] = proto

ProtocolError(proto) ==
    IF Started THEN "protocol listener must be created before starting listener"
    ELSE IF Declared(proto) THEN "protocol listener already declared for proto"
    ELSE IF ~protocolConfigured(proto) THEN "protocol not specified in the TLS configuration"
    ELSE ""

Protocol(proto) ==
    /\ Running
    /\ LET err == ProtocolError(proto)
           ch == Len(chans) + 1
           r == Len(routes) + 1
       IN IF err # ""
          THEN /\ ret' = [NoRet EXCEPT !.op = "Protocol", !.name = proto, !.err = err, !.done = TRUE]
               /\ UNCHANGED <<channels, routes, chans>>
          ELSE /\ Allocated < MaxObjects
               /\ chans' = Append(chans, NewChan)
               /\ routes' = Append(routes, [parent |-> "listener", proto |-> proto, channel |-> ch])
               /\ channels' = [p \in DOMAIN channels \cup {proto} |->
                                  IF p = proto THEN r ELSE channels[p]]
               /\ ret' = [NoRet EXCEPT !.op = "Protocol", !.name = proto, !.route = r, !.done = TRUE]
    /\ UNCHANGED <<startVars, Listeners, BindPort, workers, wk, addr, sockAddr, defaultChannel,
                   errChans, errors, conns, pc, caller, panic, stopped, startedOk, closedRunning>>

\* --------------------------------------------------- getSocketAddress
ParsePortOk(port) == port >= -(2^(PortBits - 1)) /\ port <= 2^(PortBits - 1) - 1

getSocketAddress ==
    IF sockAddr # NilAddr THEN [ok |-> TRUE, sockAddr |-> sockAddr, addr |-> addr]
    ELSE IF ParsePortOk(BindPort)
         THEN [ok |-> TRUE, sockAddr |-> <<BindPort>>, addr |-> <<BindPort>>]
         ELSE [ok |-> FALSE, sockAddr |-> sockAddr, addr |-> addr]

\* ------------------------------------------------------------ worker
NewWorker(id, sa) ==
    [parent |-> "listener", running |-> FALSE,
     socket |-> [fd |-> id, addr |-> sa, open |-> TRUE],
     pc |-> "idle", errTarget |-> NilChan, err |-> ""]

workerStart(w) ==
    IF w.running THEN w ELSE [w EXCEPT !.running = TRUE, !.pc = "check"]

workerStop(w) == [w EXCEPT !.running = FALSE, !.socket.open = FALSE]

\* ------------------------------------------------------- Listener.Start
\* Mutant of NormalizedListeners: 0 is not replaced by 1.
NormalizedListenersRaw(n) == n

NormalizedListeners(n) == IF n = 0 THEN 1 ELSE n

\* The first `built` of `n` workers get a socket and are started; the other
\* entries of the worker list stay nil.
StartWorkers(n, built, sa) ==
    /\ workers' = [j \in 1..n |-> IF j <= built THEN Len(wk) + j ELSE 0]
    /\ wk' = wk \o [j \in 1..built |-> workerStart(NewWorker(Len(wk) + j, sa))]

\* The head of Start: Listeners is normalised and the two channels are made.
\* The caller starts a listener that is not running (Start itself has no
\* such check); a stopped listener may be started again.
StartCommon ==
    /\ Running
    /\ ~Started
    /\ Allocated + 1 <= MaxObjects
    /\ Listeners' = NormalizedListeners(Listeners)
    /\ chans' = Append(chans, NewChan)
    /\ defaultChannel' = Len(chans) + 1
    /\ errChans' = Append(errChans, NewChan)
    /\ errors' = Len(errChans) + 1
    /\ stopped' = FALSE
    /\ closedRunning' = {}
    /\ UNCHANGED <<startVars, BindPort, channels, routes, conns, panic>>

\* Every buildSocket call succeeds: Start returns nil.
StartOk ==
    /\ StartCommon
    /\ LET sa == getSocketAddress
           n == NormalizedListeners(Listeners)
       IN /\ sa.ok
          /\ Allocated + 1 + n <= MaxObjects
          /\ StartWorkers(n, n, sa.sockAddr)
          /\ sockAddr' = sa.sockAddr
          /\ addr' = sa.addr
          /\ ret' = [NoRet EXCEPT !.op = "Start", !.done = TRUE]
    /\ startedOk' = TRUE
    /\ UNCHANGED <<pc, caller>>

\* buildSocket fails for worker i (the address does not parse, or a socket
\* system call fails): Start calls Stop and then returns the error.
StartFail(i) ==
    /\ StartCommon
    /\ LET sa == getSocketAddress
           n == NormalizedListeners(Listeners)
       IN /\ i \in 1..n
          /\ ~sa.ok => i = 1
          /\ Allocated + i <= MaxObjects
          /\ StartWorkers(n, i - 1, sa.sockAddr)
          /\ sockAddr' = sa.sockAddr
          /\ addr' = sa.addr
          /\ UNCHANGED ret
    /\ pc' = "stop_workers"
    /\ caller' = "Start"
    /\ UNCHANGED startedOk

\* --------------------------------------------------------- Protocol.Close
\* delete(protocol.parent.channels, protocol.proto)
\* Mutant of RemoveRoute: Close forgets to delete the registry entry.
RemoveRouteKeep(proto) == channels

RemoveRoute(proto) == [p \in DOMAIN channels \ {proto} |-> channels[p]]

ProtocolClose(r) ==
    /\ Running
    /\ LET proto == routes[r].proto
           ch == routes[r].channel
       IN IF proto \in DOMAIN channels
          THEN IF chans[ch].closed
               THEN /\ panic' = [op |-> "Protocol.Close", msg |-> "close of closed channel"]
                    /\ ret' = [NoRet EXCEPT !.op = "Protocol.Close", !.route = r]
                    /\ UNCHANGED <<chans, channels, closedRunning>>
               ELSE /\ chans' = CloseChan(chans, ch)
                    /\ channels' = RemoveRoute(proto)
                    /\ ret' = [NoRet EXCEPT !.op = "Protocol.Close", !.route = r, !.done = TRUE]
                    /\ closedRunning' = IF Started THEN closedRunning \cup {proto}
                                        ELSE closedRunning
                    /\ UNCHANGED panic
          ELSE /\ ret' = [NoRet EXCEPT !.op = "Protocol.Close", !.route = r,
                                       !.err = "listener already closed", !.done = TRUE]
               /\ UNCHANGED <<chans, channels, closedRunning, panic>>
    /\ UNCHANGED <<startVars, Listeners, BindPort, workers, wk, addr, sockAddr, routes,
                   defaultChannel, errChans, errors, conns, pc, caller, stopped, startedOk>>

\* ---------------------------------------------------------- Listener.Stop
\* Stop (also reached through Close) runs in steps, because the accept loops
\* and the connectionReceived goroutines run while it executes.
\* for i := range listener.workers { if workers[i] != nil { workers[i].stop() } }
\* Mutant of StoppedWorkers: the loop over the worker list stops nobody.
StoppedWorkersNone == wk

StoppedWorkers ==
    [w \in DOMAIN wk |->
        IF \E i \in DOMAIN workers : workers[i] = w THEN workerStop(wk[w]) ELSE wk[w]]

\* A call of Stop, or of Close, which only calls Stop and returns nil.
CallStop(who) ==
    /\ Running
    /\ wk' = StoppedWorkers
    /\ pc' = "stop_routes"
    /\ caller' = who
    /\ closedRunning' = {}
    /\ UNCHANGED <<startVars, Listeners, BindPort, workers, addr, sockAddr, channels, routes,
                   chans, defaultChannel, errChans, errors, conns, ret, panic, stopped, startedOk>>

\* The Stop that Start calls when buildSocket failed.
StopWorkers ==
    /\ pc = "stop_workers" /\ Live
    /\ wk' = StoppedWorkers
    /\ pc' = "stop_routes"
    /\ UNCHANGED <<startVars, Listeners, BindPort, workers, addr, sockAddr, channels, routes,
                   chans, defaultChannel, errChans, errors, conns, caller, ret, panic, stopped, startedOk, closedRunning>>

\* for proto := range listener.channels { listener.channels[proto].Close() }
StopRoutes ==
    /\ pc = "stop_routes" /\ Live
    /\ LET open == {routes[channels[p]].channel : p \in DOMAIN channels}
       IN IF \E ch \in open : chans[ch].closed
          THEN /\ panic' = [op |-> caller, msg |-> "close of closed channel"]
               /\ UNCHANGED <<chans, channels, pc>>
          ELSE /\ chans' = [ch \in DOMAIN chans |->
                              IF ch \in open THEN [chans[ch] EXCEPT !.closed = TRUE]
                              ELSE chans[ch]]
               /\ channels' = EmptyMap
               /\ pc' = "stop_drain"
               /\ UNCHANGED panic
    /\ UNCHANGED <<startVars, Listeners, BindPort, workers, wk, addr, sockAddr, routes,
                   defaultChannel, errChans, errors, conns, caller, ret, stopped, startedOk, closedRunning>>

\* if len(listener.defaultChannel) == 1 {
StopDrainCheck ==
    /\ pc = "stop_drain" /\ Live
    /\ pc' = IF ChanLen(defaultChannel) = 1 THEN "stop_recv" ELSE "stop_close"
    /\ UNCHANGED <<startVars, Listeners, BindPort, workers, wk, addr, sockAddr, channels, routes,
                   chans, defaultChannel, errChans, errors, conns, caller, ret, panic, stopped, startedOk, closedRunning>>

\* conn := <-listener.defaultChannel; conn.Close() }
StopDrainRecv ==
    /\ pc = "stop_recv" /\ Live
    /\ LET ch == chans[defaultChannel]
       IN IF ch.buf # <<>>
          THEN /\ chans' = [chans EXCEPT ![defaultChannel].buf = Tail(@)]
               /\ conns' = [conns EXCEPT ![Head(ch.buf)] = Gone("closed")]
               /\ pc' = "stop_close"
               /\ UNCHANGED panic
          ELSE /\ ch.closed
               /\ panic' = [op |-> caller, msg |-> "nil pointer dereference"]
               /\ UNCHANGED <<chans, conns, pc>>
    /\ UNCHANGED <<startVars, Listeners, BindPort, workers, wk, addr, sockAddr, channels, routes,
                   defaultChannel, errChans, errors, caller, ret, stopped, startedOk, closedRunning>>

StopResult(who) ==
    IF who = "Start"
    THEN [NoRet EXCEPT !.op = "Start", !.err = "builder worker socket", !.done = TRUE]
    ELSE [NoRet EXCEPT !.op = "Stop", !.done = TRUE]

\* Mutant of ClearedWorkers: Stop leaves the worker list as it is.
ClearedWorkersKept == workers

ClearedWorkers == <<>>
ClearedChannels == EmptyMap
ClearedSockAddr == NilAddr

\* close(listener.defaultChannel); workers = nil; channels = nil; sockAddr = nil
StopFinish ==
    /\ pc = "stop_close" /\ Live
    /\ IF defaultChannel = NilChan
       THEN /\ panic' = [op |-> caller, msg |-> "close of nil channel"]
            /\ UNCHANGED <<chans, workers, channels, sockAddr, pc, ret, stopped, caller>>
       ELSE IF chans[defaultChannel].closed
       THEN /\ panic' = [op |-> caller, msg |-> "close of closed channel"]
            /\ UNCHANGED <<chans, workers, channels, sockAddr, pc, ret, stopped, caller>>
       ELSE /\ chans' = CloseChan(chans, defaultChannel)
            /\ workers' = ClearedWorkers
            /\ channels' = ClearedChannels
            /\ sockAddr' = ClearedSockAddr
            /\ pc' = "idle"
            /\ ret' = StopResult(caller)
            /\ caller' = ""
            /\ stopped' = TRUE
            /\ UNCHANGED panic
    /\ UNCHANGED <<startVars, Listeners, BindPort, wk, addr, routes, defaultChannel, errChans,
                   errors, conns, startedOk, closedRunning>>

\* ---------------------------------------------------------- worker.listen
\* for worker.isRunning() {
WorkerCheck(w) ==
    /\ Live
    /\ wk[w].pc = "check"
    /\ wk' = [wk EXCEPT ![w].pc = IF wk[w].running THEN "accept" ELSE "done"]
    /\ UNCHANGED <<startVars, Listeners, BindPort, workers, addr, sockAddr, channels, routes,
                   chans, defaultChannel, errChans, errors, conns, pc, caller, ret,
                   panic, stopped, startedOk, closedRunning>>

\* Mutant of WorkerAcceptConn: connectionReceived is called on the loop, which
\* waits for it.
WorkerAcceptConnInline(w) ==
    /\ Live
    /\ wk[w].pc = "accept"
    /\ wk[w].socket.open
    /\ Allocated < MaxObjects
    /\ conns' = Append(conns, NewConn)
    /\ wk' = [wk EXCEPT ![w].pc = "connectionReceived"]
    /\ UNCHANGED <<startVars, Listeners, BindPort, workers, addr, sockAddr, channels, routes,
                   chans, defaultChannel, errChans, errors, pc, caller, ret,
                   panic, stopped, startedOk, closedRunning>>

\* conn, err := worker.socket.Accept() with err == nil;
\* go worker.parent.connectionReceived(conn)
WorkerAcceptConn(w) ==
    /\ Live
    /\ wk[w].pc = "accept"
    /\ wk[w].socket.open
    /\ Allocated < MaxObjects
    /\ conns' = Append(conns, NewConn)
    /\ wk' = [wk EXCEPT ![w].pc = "check"]
    /\ UNCHANGED <<startVars, Listeners, BindPort, workers, addr, sockAddr, channels, routes,
                   chans, defaultChannel, errChans, errors, pc, caller, ret,
                   panic, stopped, startedOk, closedRunning>>

\* The error Accept returns: the socket was closed by stop, or the accept
\* failed on an open socket.
AcceptError(w) ==
    IF wk[w].socket.open THEN "accept failed" ELSE "use of closed network connection"

\* conn, err := worker.socket.Accept() with err != nil: the loop goes on to
\* `worker.parent.errors <- err`.
WorkerAcceptErr(w) ==
    /\ Live
    /\ wk[w].pc = "accept"
    /\ wk' = [wk EXCEPT ![w].pc = "senderr", ![w].err = AcceptError(w),
                        ![w].errTarget = errors]
    /\ UNCHANGED <<startVars, Listeners, BindPort, workers, addr, sockAddr, channels, routes,
                   chans, defaultChannel, errChans, errors, conns, pc, caller, ret,
                   panic, stopped, startedOk, closedRunning>>

\* worker.parent.errors <- err; continue   (blocks while the channel is full)
WorkerSendErr(w) ==
    /\ Live
    /\ wk[w].pc = "senderr"
    /\ wk[w].errTarget # NilChan
    /\ LET ch == wk[w].errTarget
       IN IF errChans[ch].closed
          THEN /\ panic' = [op |-> "worker.listen", msg |-> "send on closed channel"]
               /\ UNCHANGED <<errChans, wk>>
          ELSE /\ Len(errChans[ch].buf) < ChanCap
               /\ errChans' = [errChans EXCEPT ![ch].buf = Append(@, wk[w].err)]
               /\ wk' = [wk EXCEPT ![w].pc = "check", ![w].err = "", ![w].errTarget = NilChan]
               /\ UNCHANGED panic
    /\ UNCHANGED <<startVars, Listeners, BindPort, workers, addr, sockAddr, channels, routes,
                   chans, defaultChannel, errors, conns, pc, caller, ret, stopped, startedOk, closedRunning>>

\* ------------------------------------------- Listener.connectionReceived
\* Mutant of HandshakeFail: the failed connection is reported on the error
\* channel.
HandshakeFailReported(c) ==
    /\ Live
    /\ conns[c].st = "handshake"
    /\ errors # NilChan
    /\ conns' = [conns EXCEPT ![c] = Gone("closed")]
    /\ errChans' = [errChans EXCEPT ![errors].buf = Append(@, "handshake failed")]
    /\ UNCHANGED <<startVars, Listeners, BindPort, workers, wk, addr, sockAddr, channels, routes,
                   chans, defaultChannel, errors, pc, caller, ret,
                   panic, stopped, startedOk, closedRunning>>

\* tlsConn.Handshake() fails: tlsConn.Close(); return
HandshakeFail(c) ==
    /\ Live
    /\ conns[c].st = "handshake"
    /\ conns' = [conns EXCEPT ![c] = Gone("closed")]
    /\ UNCHANGED <<startVars, Listeners, BindPort, workers, wk, addr, sockAddr, channels, routes,
                   chans, defaultChannel, errChans, errors, pc, caller, ret,
                   panic, stopped, startedOk, closedRunning>>

\* Mutant of LookupTarget: NegotiatedProtocolIsMutual is not consulted.
LookupTargetAnyNegotiation(proto, mutual) ==
    IF proto \in DOMAIN channels
    THEN routes[channels[proto]].channel
    ELSE defaultChannel

\* if proto, ok := listener.channels[name]; ok && mutual { proto.channel }
\* else { listener.defaultChannel }
LookupTarget(proto, mutual) ==
    IF proto \in DOMAIN channels /\ mutual
    THEN routes[channels[proto]].channel
    ELSE defaultChannel

\* tlsConn.Handshake() succeeds, the peer and the TLS library having decided
\* NegotiatedProtocol and NegotiatedProtocolIsMutual, and the registry is read.
\* The handshake touches nothing another goroutine reads, so its return and
\* the lookup that follows it are one step.
Lookup(c, proto, mutual) ==
    /\ Live
    /\ conns[c].st = "handshake"
    /\ conns' = [conns EXCEPT ![c] = [st |-> "send", proto |-> proto, mutual |-> mutual,
                                      target |-> LookupTarget(proto, mutual)]]
    /\ UNCHANGED <<startVars, Listeners, BindPort, workers, wk, addr, sockAddr, channels, routes,
                   chans, defaultChannel, errChans, errors, pc, caller, ret,
                   panic, stopped, startedOk, closedRunning>>

\* proto.channel <- tlsConn  /  listener.defaultChannel <- tlsConn
\* (blocks while the queue is full, and for ever on a nil channel)
Send(c) ==
    /\ Live
    /\ conns[c].st = "send"
    /\ conns[c].target # NilChan
    /\ LET ch == conns[c].target
       IN IF chans[ch].closed
          THEN /\ panic' = [op |-> "connectionReceived", msg |-> "send on closed channel"]
               /\ UNCHANGED <<chans, conns>>
          ELSE /\ ~ChanFull(ch)
               /\ chans' = [chans EXCEPT ![ch].buf = Append(@, c)]
               /\ conns' = [conns EXCEPT ![c].st = "queued"]
               /\ UNCHANGED panic
    /\ UNCHANGED <<startVars, Listeners, BindPort, workers, wk, addr, sockAddr, channels, routes,
                   defaultChannel, errChans, errors, pc, caller, ret, stopped, startedOk, closedRunning>>

\* ------------------------------------------------------- Listener.Accept
\* Mutant of AcceptConn: the connection is returned and stays in the queue.
AcceptConnKept ==
    /\ Live
    /\ defaultChannel # NilChan
    /\ chans[defaultChannel].buf # <<>>
    /\ LET c == Head(chans[defaultChannel].buf)
       IN /\ conns' = [conns EXCEPT ![c] = Gone("accepted")]
          /\ ret' = [NoRet EXCEPT !.done = TRUE, !.op = "Listener.Accept", !.conn = c]
    /\ UNCHANGED <<startVars, Listeners, BindPort, workers, wk, addr, sockAddr, channels, routes,
                   chans, defaultChannel, errChans, errors, pc, caller, panic, stopped, startedOk, closedRunning>>

\* case conn, ok := <-listener.defaultChannel with ok: return conn, nil
AcceptConn ==
    /\ Live
    /\ defaultChannel # NilChan
    /\ chans[defaultChannel].buf # <<>>
    /\ LET c == Head(chans[defaultChannel].buf)
       IN /\ chans' = [chans EXCEPT ![defaultChannel].buf = Tail(@)]
          /\ conns' = [conns EXCEPT ![c] = Gone("accepted")]
          /\ ret' = [NoRet EXCEPT !.done = TRUE, !.op = "Listener.Accept", !.conn = c]
    /\ UNCHANGED <<startVars, Listeners, BindPort, workers, wk, addr, sockAddr, channels, routes,
                   defaultChannel, errChans, errors, pc, caller, panic, stopped, startedOk, closedRunning>>

\* case conn, ok := <-listener.defaultChannel with !ok:
\* return nil, fmt.Errorf("accept %s %s: use of closed network connection",
\*                        listener.addr.Network(), listener.addr.String())
AcceptClosed ==
    /\ Live
    /\ defaultChannel # NilChan
    /\ chans[defaultChannel].buf = <<>>
    /\ chans[defaultChannel].closed
    /\ IF addr = NilAddr
       THEN /\ panic' = [op |-> "Listener.Accept", msg |-> "nil pointer dereference"]
            /\ UNCHANGED ret
       ELSE /\ ret' = [NoRet EXCEPT !.done = TRUE, !.op = "Listener.Accept",
                                    !.err = "use of closed network connection"]
            /\ UNCHANGED panic
    /\ UNCHANGED <<startVars, Listeners, BindPort, workers, wk, addr, sockAddr, channels, routes,
                   chans, defaultChannel, errChans, errors, conns, pc, caller, stopped, startedOk, closedRunning>>

\* case err := <-listener.errors: return nil, err
AcceptErr ==
    /\ Live
    /\ errors # NilChan
    /\ errChans[errors].buf # <<>>
    /\ errChans' = [errChans EXCEPT ![errors].buf = Tail(@)]
    /\ ret' = [NoRet EXCEPT !.done = TRUE, !.op = "Listener.Accept",
                            !.err = Head(errChans[errors].buf)]
    /\ UNCHANGED <<startVars, Listeners, BindPort, workers, wk, addr, sockAddr, channels, routes,
                   chans, defaultChannel, errors, conns, pc, caller, panic, stopped, startedOk, closedRunning>>

\* ------------------------------------------------------- Protocol.Accept
\* if conn, open := <-protocol.channel; !open { error } else { conn }
ProtocolAccept(r) ==
    /\ Live
    /\ LET ch == routes[r].channel
       IN IF chans[ch].buf # <<>>
          THEN /\ chans' = [chans EXCEPT ![ch].buf = Tail(@)]
               /\ conns' = [conns EXCEPT ![Head(chans[ch].buf)] = Gone("accepted")]
               /\ ret' = [NoRet EXCEPT !.done = TRUE, !.op = "Protocol.Accept", !.route = r,
                                       !.conn = Head(chans[ch].buf)]
          ELSE /\ chans[ch].closed
               /\ ret' = [NoRet EXCEPT !.done = TRUE, !.op = "Protocol.Accept", !.route = r,
                                       !.err = "use of closed socket"]
               /\ UNCHANGED <<chans, conns>>
    /\ UNCHANGED <<startVars, Listeners, BindPort, workers, wk, addr, sockAddr, channels, routes,
                   defaultChannel, errChans, errors, pc, caller, panic, stopped, startedOk, closedRunning>>

\* The caller takes the result of the call that just returned.
Return ==
    /\ panic = NoPanic
    /\ ret # NoRet
    /\ ret' = NoRet
    /\ UNCHANGED <<startVars, Listeners, BindPort, workers, wk, addr, sockAddr, channels, routes,
                   chans, defaultChannel, errChans, errors, conns, pc, caller,
                   panic, stopped, startedOk, closedRunning>>

Next ==
    \/ Return
    \/ \E proto \in Names : Protocol(proto)
    \/ StartOk
    \/ \E i \in 1..NormalizedListeners(Listeners) : StartFail(i)
    \/ \E r \in DOMAIN routes : ProtocolClose(r)
    \/ CallStop("Stop")
    \/ CallStop("Close")
    \/ StopWorkers
    \/ StopRoutes
    \/ StopDrainCheck
    \/ StopDrainRecv
    \/ StopFinish
    \/ \E w \in DOMAIN wk : WorkerCheck(w)
    \/ \E w \in DOMAIN wk : WorkerAcceptConn(w)
    \/ \E w \in DOMAIN wk : WorkerAcceptErr(w)
    \/ \E w \in DOMAIN wk : WorkerSendErr(w)
    \/ \E c \in DOMAIN conns : HandshakeFail(c)
    \/ \E c \in DOMAIN conns, proto \in NegotiatedNames, mutual \in BOOLEAN :
          Lookup(c, proto, mutual)
    \/ \E c \in DOMAIN conns : Send(c)
    \/ AcceptConn
    \/ AcceptClosed
    \/ AcceptErr
    \/ \E r \in DOMAIN routes : ProtocolAccept(r)

Spec == Init /\ [][Next]_vars

\* The calls of the goroutine that owns the listener, in behaviours in which
\* no client connects and no accept loop is scheduled.  Every behaviour of
\* SpecCalls is a behaviour of Spec.
NextCalls ==
    \/ Return
    \/ \E proto \in Names : Protocol(proto)
    \/ StartOk
    \/ \E i \in 1..NormalizedListeners(Listeners) : StartFail(i)
    \/ \E r \in DOMAIN routes : ProtocolClose(r)
    \/ CallStop("Stop")
    \/ CallStop("Close")
    \/ StopWorkers
    \/ StopRoutes
    \/ StopDrainCheck
    \/ StopFinish

SpecCalls == Init /\ [][NextCalls]_vars

\* The listener and its accept loops in behaviours in which no client
\* connects and no route is registered.  Every behaviour of SpecWorkers is a
\* behaviour of Spec.  Whatever is enabled for good is executed: the caller
\* takes results and Stop runs to its end; a loop re-tests its flag, its
\* Accept on a closed socket fails, and its send goes through once the error
\* channel has room.  A consumer of Listener.Accept may or may not come, and
\* an open socket may or may not produce an accept error.  A loop's step
\* or of Stop waits while a call returns its result, so they are scheduled
\* under strong fairness: a step possible again and again is taken.
WorkerAcceptClosed(w) == ~wk[w].socket.open /\ WorkerAcceptErr(w)

NextWorkers ==
    \/ Return
    \/ StartOk
    \/ \E i \in 1..NormalizedListeners(Listeners) : StartFail(i)
    \/ CallStop("Stop")
    \/ StopWorkers
    \/ StopRoutes
    \/ StopDrainCheck
    \/ StopFinish
    \/ \E w \in DOMAIN wk : WorkerCheck(w)
    \/ \E w \in DOMAIN wk : WorkerAcceptErr(w)
    \/ \E w \in DOMAIN wk : WorkerSendErr(w)
    \/ AcceptClosed
    \/ AcceptErr

FairWorkers ==
    /\ WF_vars(Return)
    /\ SF_vars(StopWorkers)
    /\ SF_vars(StopRoutes)
    /\ SF_vars(StopDrainCheck)
    /\ SF_vars(StopFinish)
    /\ \A w \in 1..MaxObjects :
          /\ SF_vars(w \in DOMAIN wk /\ WorkerCheck(w))
          /\ SF_vars(w \in DOMAIN wk /\ WorkerAcceptClosed(w))
          /\ SF_vars(w \in DOMAIN wk /\ WorkerSendErr(w))

SpecWorkers == Init /\ [][NextWorkers]_vars /\ FairWorkers

\* ----------------------------------------------------------- worker.start
\* Several goroutines call start on one worker.  The listener is as in the
\* loop of Start after the worker was built (part_000:79-82).
listenerVars == <<Listeners, BindPort, workers, addr, sockAddr, channels, routes,
                  chans, defaultChannel, errChans, errors, conns, pc, caller, ret,
                  panic, stopped, startedOk, closedRunning>>

StartedWorker == 1

InitStart ==
    /\ Listeners = 1
    /\ BindPort = 6080
    /\ workers = <<StartedWorker>>
    /\ wk = <<NewWorker(StartedWorker, <<6080>>)>>
    /\ addr = <<6080>>
    /\ sockAddr = <<6080>>
    /\ channels = EmptyMap
    /\ routes = <<>>
    /\ chans = <<NewChan>>
    /\ defaultChannel = 1
    /\ errChans = <<NewChan>>
    /\ errors = 1
    /\ conns = <<>>
    /\ pc = "idle"
    /\ caller = ""
    /\ ret = NoRet
    /\ Live
    /\ stopped = FALSE
    /\ startedOk = FALSE
    /\ closedRunning = {}
    /\ \E n \in 1..MaxStarters : starters = [s \in 1..n |-> "call"]
    /\ lock = 0
    /\ listenTasks = 0

\* if worker.isRunning() {      isRunning: worker.lock.Lock()
IsRunningLock(s) ==
    /\ starters[s] = "call"
    /\ lock = 0
    /\ lock' = s
    /\ starters' = [starters EXCEPT ![s] = "isRunning"]
    /\ UNCHANGED <<listenerVars, wk, listenTasks>>

\* isRunning: return worker.running, with the deferred Unlock; start returns
\* when the flag was set and goes on to its own Lock when it was not.
IsRunningReturn(s) ==
    /\ starters[s] = "isRunning"
    /\ lock' = 0
    /\ starters' = [starters EXCEPT ![s] =
                       IF wk[StartedWorker].running THEN "done" ELSE "lock"]
    /\ UNCHANGED <<listenerVars, wk, listenTasks>>

\* worker.lock.Lock()
StartLock(s) ==
    /\ starters[s] = "lock"
    /\ lock = 0
    /\ lock' = s
    /\ starters' = [starters EXCEPT ![s] = "set"]
    /\ UNCHANGED <<listenerVars, wk, listenTasks>>

\* worker.running = true
StartSetRunning(s) ==
    /\ starters[s] = "set"
    /\ wk' = [wk EXCEPT ![StartedWorker].running = TRUE, ![StartedWorker].pc = "check"]
    /\ starters' = [starters EXCEPT ![s] = "spawn"]
    /\ UNCHANGED <<listenerVars, lock, listenTasks>>

\* go worker.listen()
StartGoListen(s) ==
    /\ starters[s] = "spawn"
    /\ listenTasks' = listenTasks + 1
    /\ starters' = [starters EXCEPT ![s] = "unlock"]
    /\ UNCHANGED <<listenerVars, wk, lock>>

\* the deferred worker.lock.Unlock()
StartUnlock(s) ==
    /\ starters[s] = "unlock"
    /\ lock' = 0
    /\ starters' = [starters EXCEPT ![s] = "done"]
    /\ UNCHANGED <<listenerVars, wk, listenTasks>>

NextStart ==
    \/ \E s \in DOMAIN starters : IsRunningLock(s)
    \/ \E s \in DOMAIN starters : IsRunningReturn(s)
    \/ \E s \in DOMAIN starters : StartLock(s)
    \/ \E s \in DOMAIN starters : StartSetRunning(s)
    \/ \E s \in DOMAIN starters : StartGoListen(s)
    \/ \E s \in DOMAIN starters : StartUnlock(s)

SpecStart == InitStart /\ [][NextStart]_vars

\* ------------------------------------------------- getSocketAddress alone
\* getSocketAddress is called on a fresh listener whose BindAddr has a valid
\* host and a port taken from around the edges of the signed and unsigned
\* 16-bit ranges.
MaxTCPPort == 2^PortBits - 1

PortEdges == {-(2^(PortBits - 1)), 0, 2^(PortBits - 1) - 1, MaxTCPPort}

Ports == BindPorts \cup {e + d : e \in PortEdges, d \in -PortWindow..PortWindow}

InitPorts ==
    /\ Listeners = 0
    /\ BindPort \in Ports
    /\ workers = <<>>
    /\ wk = <<>>
    /\ addr = NilAddr
    /\ sockAddr = NilAddr
    /\ channels = EmptyMap
    /\ routes = <<>>
    /\ chans = <<>>
    /\ defaultChannel = NilChan
    /\ errChans = <<>>
    /\ errors = NilChan
    /\ conns = <<>>
    /\ pc = "idle"
    /\ caller = ""
    /\ ret = NoRet
    /\ Live
    /\ stopped = FALSE
    /\ startedOk = FALSE
    /\ closedRunning = {}
    /\ starters = <<>>
    /\ lock = 0
    /\ listenTasks = 0

\* A call of listener.getSocketAddress(): the cached address is returned, or
\* the port is parsed and both addresses are stored, or the error is returned
\* and nothing is stored.
GetSocketAddress ==
    /\ Running
    /\ LET sa == getSocketAddress
       IN /\ sockAddr' = sa.sockAddr
          /\ addr' = sa.addr
          /\ ret' = [NoRet EXCEPT !.op = "getSocketAddress", !.done = TRUE,
                        !.err = IF sa.ok THEN "" ELSE "parse listener address port to int"]
    /\ UNCHANGED <<startVars, Listeners, BindPort, workers, wk, channels, routes, chans,
                   defaultChannel, errChans, errors, conns, pc, caller, panic,
                   stopped, startedOk, closedRunning>>

NextPorts ==
    \/ GetSocketAddress
    \/ Return

SpecPorts == InitPorts /\ [][NextPorts]_vars

\* ====================================================================
\* Properties
\* ====================================================================
Configured(name) == \E i \in DOMAIN NextProtos : NextProtos[i] = name

ConfigurationErrors ==
    {"protocol listener must be created before starting listener",
     "protocol listener already declared for proto",
     "protocol not specified in the TLS configuration"}

\* The step in which the caller's call of `op` returned or panicked.
Returned(op) == ret = NoRet /\ ret'.op = op

\* The step in which connectionReceived of c reads the registry.
LookedUp(c) == conns[c].st = "handshake" /\ conns'[c].st = "send"

InQueue(c, ch) == \E k \in DOMAIN chans[ch].buf : chans[ch].buf[k] = c

\* A queued connection sits in the queue it was routed to and in no other.
QueuedInTarget ==
    \A c \in DOMAIN conns :
        conns[c].st = "queued" =>
            /\ conns[c].target # NilChan
            /\ \A ch \in DOMAIN chans : InQueue(c, ch) <=> ch = conns[c].target

RoutedByRegistry ==
    \A c \in DOMAIN conns :
        LookedUp(c) =>
            LET name == conns'[c].proto
                t == conns'[c].target
                hit == name \in DOMAIN channels /\ conns'[c].mutual
            IN /\ hit => /\ t = routes[channels[name]].channel
                         /\ routes[channels[name]].proto = name
               /\ ~hit => t = defaultChannel
               /\ name = "" => t = defaultChannel
               /\ ~conns'[c].mutual => t = defaultChannel
               /\ t # defaultChannel => hit

\* C1: a connection whose handshake succeeded is handed to the queue of the
\* route registered under exactly its negotiated name when such a route
\* exists at lookup time and the negotiation was mutual, and to the default
\* queue in every other case (no route, empty name, not mutual).
C1_RoutingDecision == []QueuedInTarget /\ [][RoutedByRegistry]_vars

C1_Witness ==
    \E c \in DOMAIN conns :
        /\ conns[c].st = "queued"
        /\ conns[c].proto = "h2" /\ conns[c].mutual
        /\ "h2" \in DOMAIN channels
        /\ InQueue(c, routes[channels["h2"]].channel)

\* C2: once Protocol.Close has returned nil for the route of name P while the
\* listener keeps running, a connection that mutually negotiated P and is
\* looked up afterwards goes to the default queue and never to a closed route.
C2_ClosedRouteFallsThrough ==
    [][\A c \in DOMAIN conns :
          (LookedUp(c) /\ conns'[c].mutual /\ conns'[c].proto \in closedRunning) =>
              /\ conns'[c].target = defaultChannel
              /\ \A r \in DOMAIN routes :
                    chans[routes[r].channel].closed =>
                        conns'[c].target # routes[r].channel]_vars

C2_Witness ==
    \E c \in DOMAIN conns :
        /\ conns[c].st = "queued"
        /\ conns[c].mutual /\ conns[c].proto \in closedRunning
        /\ InQueue(c, defaultChannel)

\* C3: Stop is idempotent and total: a call of Stop or Close never panics,
\* whether the listener was never started, is running, was already stopped or
\* failed to start.
C3_StopNeverPanics == panic.op \notin {"Stop", "Close"}

\* C4: once Stop has completed, Listener.Accept returns a nil connection and
\* the closed-connection error, and so does Accept on a route that has been
\* closed; neither panics nor returns a connection.
C4_AcceptAfterStop ==
    [][/\ stopped => panic'.op # "Listener.Accept"
       /\ (Returned("Listener.Accept") /\ stopped) =>
              ret'.conn = 0 /\ ret'.err = "use of closed network connection"
       /\ (Returned("Protocol.Accept") /\ chans[routes[ret'.route].channel].closed) =>
              ret'.conn = 0 /\ ret'.err = "use of closed socket"]_vars

\* C5: the queue of a route is closed at most once: a Close on a route handle
\* whose queue is already closed returns the 'already closed' error and
\* changes neither a queue nor the registry.
C5_CloseOnce ==
    [][(Returned("Protocol.Close") /\ chans[routes[ret'.route].channel].closed) =>
          /\ panic' = NoPanic
          /\ ret'.err = "listener already closed"
          /\ chans' = chans
          /\ channels' = channels]_vars

StopReturned == ret.done /\ (ret.op = "Stop" \/ (ret.op = "Start" /\ ret.err # ""))

\* C6: after Stop returns the default queue is closed, the worker list is
\* empty, the registry is empty and the cached socket address is cleared.
C6_StopPostcondition ==
    StopReturned =>
        /\ defaultChannel # NilChan
        /\ chans[defaultChannel].closed
        /\ Len(workers) = 0
        /\ DOMAIN channels = {}
        /\ sockAddr = NilAddr

C6_Witness ==
    /\ ret.op = "Stop" /\ ret.done
    /\ \E w \in DOMAIN wk : ~wk[w].running /\ ~wk[w].socket.open
    /\ \E r \in DOMAIN routes : chans[routes[r].channel].closed

\* C7: registering a name that is not in TLSConfig.NextProtos returns a nil
\* route and a configuration error and leaves the registry as it was, in
\* every state; so the registry only ever holds configured names.
C7_UnlistedNameRejected ==
    /\ [](\A p \in DOMAIN channels : Configured(p))
    /\ [][(Returned("Protocol") /\ ~Configured(ret'.name)) =>
             /\ ret'.route = 0
             /\ ret'.err \in ConfigurationErrors
             /\ panic' = NoPanic
             /\ channels' = channels
             /\ routes' = routes]_vars

C7_Witness ==
    /\ ret.op = "Protocol" /\ ret.name = "h3" /\ ret.route = 0
    /\ ret.err = "protocol not specified in the TLS configuration"
    /\ "h2" \in DOMAIN channels

\* C8: registering a name that is already in the registry returns a nil route
\* and an error, and the registry keeps the route of the first registration
\* with its queue; a name has one route, whose proto is that name.
C8_DuplicateRejected ==
    /\ [](\A p \in DOMAIN channels :
            /\ channels[p] \in DOMAIN routes
            /\ routes[channels[p]].proto = p
            /\ ~chans[routes[channels[p]].channel].closed)
    /\ [][(Returned("Protocol") /\ ret'.name \in DOMAIN channels) =>
             /\ ret'.route = 0
             /\ ret'.err \in ConfigurationErrors
             /\ channels' = channels
             /\ routes' = routes
             /\ chans' = chans]_vars

C8_Witness ==
    /\ ret.op = "Protocol" /\ ret.name = "h2" /\ ret.route = 0
    /\ ret.err = "protocol listener already declared for proto"
    /\ "h2" \in DOMAIN channels

RegistryGainsNothing ==
    /\ \A p \in DOMAIN channels' : p \in DOMAIN channels /\ channels'[p] = channels[p]
    /\ Returned("Protocol") => ret'.route = 0 /\ ret'.err # ""

\* C9 as stated: once Start has returned nil, every later call of
\* Listener.Protocol fails and the registry gains no entry.
C9_FrozenAfterStart == [][startedOk => RegistryGainsNothing]_vars

\* C9 as amended: while the worker list is not empty, which is from a
\* successful Start until Stop has run, every call of Listener.Protocol fails
\* for every name and the registry gains no entry.
C9_FrozenWhileRunning == [][Len(workers) > 0 => RegistryGainsNothing]_vars

C9_Witness ==
    /\ ret.op = "Protocol" /\ ret.name = "h2" /\ ret.route = 0
    /\ ret.err = "protocol listener must be created before starting listener"
    /\ Len(workers) > 0
    /\ "h2" \notin DOMAIN channels

StartReturnedNil == ret.op = "Start" /\ ret.done /\ ret.err = ""

WorkersUp(W) ==
    /\ Len(workers) = W
    /\ sockAddr # NilAddr
    /\ \A i \in 1..W :
          /\ workers[i] \in DOMAIN wk
          /\ wk[workers[i]].running
          /\ wk[workers[i]].parent = "listener"
          /\ wk[workers[i]].socket.open
          /\ wk[workers[i]].socket.addr = sockAddr
          /\ \A j \in 1..W :
                j # i => /\ workers[j] # workers[i]
                         /\ wk[workers[j]].socket.fd # wk[workers[i]].socket.fd

\* C10: after Start returns nil with worker count W (1 when Listeners was 0)
\* the worker list holds W workers, each with its own socket bound to the one
\* resolved address and the listener as parent, and all of them running.
C10_StartPostcondition ==
    /\ [](StartReturnedNil => Listeners >= 1 /\ WorkersUp(Listeners))
    /\ [][(Returned("Start") /\ StartReturnedNil') =>
             Len(workers') = IF Listeners = 0 THEN 1 ELSE Listeners]_vars

C10_Witness ==
    /\ StartReturnedNil
    /\ Len(workers) >= 1
    /\ \A i \in DOMAIN workers : wk[workers[i]].running /\ wk[workers[i]].pc = "check"

StartReturnedError == ret.op = "Start" /\ ret.done /\ ret.err # ""

NothingRunning ==
    /\ Len(workers) = 0
    /\ defaultChannel # NilChan
    /\ chans[defaultChannel].closed
    /\ \A w \in DOMAIN wk : ~wk[w].running /\ ~wk[w].socket.open

\* C11: when buildSocket fails for worker i, Start returns the error (its
\* Stop does not panic) and in the state in which it returns every worker
\* made for an index before i is stopped with its socket closed, the worker
\* list is empty and the default queue is closed.
C11_StartRollback ==
    /\ panic.op # "Start"
    /\ StartReturnedError => NothingRunning

C11_Witness ==
    /\ StartReturnedError
    /\ \E w \in DOMAIN wk : ~wk[w].running /\ ~wk[w].socket.open

\* The step in which the handshake of c fails.
HandshakeFailed(c) == conns[c].st = "handshake" /\ conns'[c].st = "closed"

\* The step in which an Accept call returns a connection.
AcceptReturnedConn == ret = NoRet /\ ret'.conn # 0

\* C12: a connection whose handshake fails is closed and dropped: the step
\* puts nothing in a queue or on the error channel, a closed connection is in
\* no queue and stays closed, and Accept only returns connections taken from
\* a queue, so never a failed one.
C12_HandshakeFailureDropped ==
    /\ [](\A c \in DOMAIN conns :
             conns[c].st = "closed" => \A ch \in DOMAIN chans : ~InQueue(c, ch))
    /\ [][/\ \A c \in DOMAIN conns :
                /\ HandshakeFailed(c) =>
                      chans' = chans /\ errChans' = errChans /\ ret' = ret
                /\ conns[c].st = "closed" => conns'[c] = conns[c]
          /\ AcceptReturnedConn =>
                /\ ret'.op \in {"Listener.Accept", "Protocol.Accept"}
                /\ conns[ret'.conn].st = "queued"]_vars

C12_Witness ==
    /\ \E c \in DOMAIN conns : conns[c].st = "closed"
    /\ pc = "idle" /\ ~stopped /\ startedOk
    /\ \E w \in DOMAIN wk : wk[w].running
    /\ ~chans[defaultChannel].closed /\ chans[defaultChannel].buf = <<>>
    /\ errChans[errors].buf = <<>>

\* C13: no connectionReceived task ever sends on a hand-off queue that has
\* been closed, for every interleaving of Protocol.Close and Stop with tasks
\* that already looked the route up or are blocked on a full queue.
C13_NoSendOnClosedQueue == panic.op # "connectionReceived"

\* C14: however many goroutines call start on one worker, and in whatever
\* interleaving, at most one accept loop is launched for that worker.
C14_SingleAcceptLoop == listenTasks <= 1

\* The error a socket's Accept returns once stop has closed the socket.
ShutdownError == "use of closed network connection"

\* C15: the accept error produced by closing a worker's socket in stop is
\* never forwarded: no error channel ever holds it, so Listener.Accept cannot
\* return an error that Stop caused.
C15_QuietShutdown ==
    \A ch \in DOMAIN errChans :
        \A k \in DOMAIN errChans[ch].buf : errChans[ch].buf[k] # ShutdownError

\* C16: once a worker has been stopped its accept loop eventually ends (or the
\* process has ended in a panic), also when nobody calls Listener.Accept.
C16_LoopsTerminate ==
    \A w \in 1..MaxObjects :
        (w \in DOMAIN wk /\ ~wk[w].running) ~>
            ((w \in DOMAIN wk /\ wk[w].pc = "done") \/ panic # NoPanic)

\* C17: when Stop returns the default queue holds no connection, and no
\* connection that was queued in it is left open, whatever the tasks that
\* send into the default queue do while Stop runs.
C17_StopLeaksNothing ==
    StopReturned =>
        /\ chans[defaultChannel].buf = <<>>
        /\ \A c \in DOMAIN conns :
              conns[c].st = "queued" => conns[c].target # defaultChannel

\* The task of c is at the hand-off and its target queue is full.
BlockedAtHandOff(c) ==
    /\ conns[c].st = "send"
    /\ conns[c].target # NilChan
    /\ ChanFull(conns[c].target)

AtMostOneQueued == \A ch \in DOMAIN chans : Len(chans[ch].buf) <= 1

\* A blocked task does not move, and a task leaves the hand-off only by
\* putting its connection into the queue it was routed to.
HandOffKeepsTarget ==
    \A c \in DOMAIN conns :
        /\ BlockedAtHandOff(c) => conns'[c] = conns[c]
        /\ (conns[c].st = "send" /\ conns'[c] # conns[c]) =>
              /\ conns'[c] = [conns[c] EXCEPT !.st = "queued"]
              /\ chans'[conns[c].target].buf = Append(chans[conns[c].target].buf, c)

\* The step takes a connection out of the full queue ch.
Removed(ch) == Len(chans[ch].buf) = ChanCap /\ Len(chans'[ch].buf) < ChanCap

RemovedByAccept(ch) ==
    /\ ret = NoRet
    /\ ret'.op \in {"Listener.Accept", "Protocol.Accept"}
    /\ ret'.conn = Head(chans[ch].buf)

RemovedByStop(ch) ==
    /\ pc = "stop_recv" /\ pc' = "stop_close"
    /\ ch = defaultChannel
    /\ conns'[Head(chans[ch].buf)].st = "closed"

LoopCanAccept(w) ==
    /\ Live
    /\ wk[w].pc = "accept"
    /\ wk[w].socket.open
    /\ Allocated < MaxObjects

\* The step of a connectionReceived task: a handshake ends or a send is done.
TaskStep(c) == conns[c].st \in {"handshake", "send"} /\ conns'[c] # conns[c]

\* C19: the accept loop is never stalled by per-connection work: whatever the
\* tasks are doing, a loop that is in Accept can take the next connection;
\* taking it spawns the task and brings the loop straight back to its test;
\* and no step of a task is a step of a loop.
C19_LoopNotStalled ==
    /\ [](\A w \in DOMAIN wk : LoopCanAccept(w) => ENABLED WorkerAcceptConn(w))
    /\ [][/\ Len(conns') > Len(conns) =>
                /\ conns' = Append(conns, NewConn)
                /\ \E w \in DOMAIN wk :
                      /\ wk[w].pc = "accept"
                      /\ wk' = [wk EXCEPT ![w].pc = "check"]
          /\ \A c \in DOMAIN conns : TaskStep(c) => wk' = wk]_vars

C19_Witness ==
    /\ Len(conns) >= 2
    /\ conns[1].st \in {"handshake", "send"}
    /\ conns[Len(conns)].st = "handshake"
    /\ \E w \in DOMAIN wk : wk[w].running /\ wk[w].pc = "check"

\* C20: the error channel shares the lifetime of the default queue: in every
\* state after a Stop (and before the next Start) both are closed.
C20_ErrorChannelClosedByStop ==
    stopped =>
        /\ defaultChannel # NilChan /\ chans[defaultChannel].closed
        /\ errors # NilChan /\ errChans[errors].closed

\* The places (queue, position) at which connection c is queued.
Places(c) ==
    {<<ch, k>> \in (DOMAIN chans) \X (1..ChanCap) :
        k <= Len(chans[ch].buf) /\ chans[ch].buf[k] = c}

\* A connection is at one place when it is queued and at none otherwise.
QueuedOnce ==
    \A c \in DOMAIN conns :
        Cardinality(Places(c)) = IF conns[c].st = "queued" THEN 1 ELSE 0

\* No queue has been closed: Stop has closed nothing and no route was closed.
NoneClosed == \A ch \in DOMAIN chans : ~chans[ch].closed

DeliveredOnce ==
    \A c \in DOMAIN conns :
        \* a connection enters a queue only from its own hand-off
        /\ (conns[c].st # "queued" /\ conns'[c].st = "queued") =>
              conns[c].st = "send" /\ InQueue(c, conns[c].target)'
        \* and is never handed off a second time
        /\ conns[c].st = "queued" => conns'[c].st \in {"queued", "accepted", "closed"}
        \* a returned connection is never returned again
        /\ conns[c].st = "accepted" => conns'[c] = conns[c]
        \* while nothing is stopped or closed no handshaken connection is dropped
        /\ (NoneClosed /\ pc = "idle" /\ conns[c].st \in {"send", "queued"}) =>
              /\ conns'[c].st \in {"send", "queued", "accepted"}
              /\ panic' = NoPanic

\* C21: while the listener is not stopped and no route is closed every
\* connection whose handshake succeeded is put into one queue once, and a
\* connection returned by an Accept is returned by no other Accept: none is
\* lost and none is duplicated.
C21_ExactlyOnce ==
    /\ []QueuedOnce
    /\ [][/\ DeliveredOnce
          /\ AcceptReturnedConn =>
                /\ conns[ret'.conn].st = "queued"
                /\ conns'[ret'.conn].st = "accepted"]_vars

C21_Witness ==
    /\ NoneClosed /\ pc = "idle" /\ ~stopped
    /\ ret.conn # 0 /\ conns[ret.conn].st = "accepted"
    /\ \E c \in DOMAIN conns : c # ret.conn /\ conns[c].st = "send"

\* C22: getSocketAddress accepts exactly the TCP ports: for a port in
\* 0..65535 it returns no error and the socket address and Addr() carry that
\* port; for any other port it returns an error and caches nothing.
C22_PortRange ==
    (ret.op = "getSocketAddress" /\ ret.done) =>
        IF BindPort \in 0..MaxTCPPort
        THEN ret.err = "" /\ sockAddr = <<BindPort>> /\ addr = <<BindPort>>
        ELSE ret.err # "" /\ sockAddr = NilAddr /\ addr = NilAddr
====
